---- MODULE Spec2Model ----
(***************************************************************************)
(* Model of src/pages/RoomCreationPage.tsx: the room-creation page of the  *)
(* drawing game.  The component's React state (isCreating, settings,       *)
(* errors), the context values it reads (player, connected,                *)
(* gameState.roomId), its two effects, its event handlers and the router   *)
(* location it drives through navigate().                                  *)
(***************************************************************************)
EXTENDS Integers, Sequences, FiniteSets, TLC

VARIABLES
    player,        \* useGame().player is set (TRUE) or null (FALSE)
    connected,     \* useSocket().connected
    roomId,        \* useGame().gameState.roomId, NoRoom for null
    isCreating,    \* useState(false), line 11
    settings,      \* useState({...}), lines 12-20
    errors,        \* useState({}), line 23: field name -> message
    depsPlayer,    \* dependency value effect 1 last ran with (line 30)
    depsNav,       \* dependency values effect 2 last ran with (line 40)
    location,      \* router location, changed by navigate()
    mounted,       \* the component instance is still mounted
    reqCount,      \* history: number of createRoom() calls
    lastPayload,   \* history: argument of the latest createRoom() call
    roomNavs,      \* history: number of navigate(`/room/...`) calls
    roomIdFresh,   \* history: roomId was written since the latest request
    abandoned,     \* history: effect 1 redirected while isCreating
    edits,         \* history: number of handleInputChange calls
    rejected,      \* history: validateSettings has refused a create action
    lastEvent,     \* history: name of the latest step
    copied,        \* useState(false), line 21
    codeCopied,    \* useState(false), line 22
    timers,        \* pending setTimeout callbacks: [flag, due]
    now,           \* the clock, in ms since construction
    clipboard,     \* text last handed to navigator.clipboard.writeText
    setAt,         \* history: per flag, when it last went from false to true
    lastCopyAt     \* history: per flag, time of the latest copy action

vars == <<player, connected, roomId, isCreating, settings, errors,
          depsPlayer, depsNav, location, mounted, reqCount, lastPayload,
          roomNavs, roomIdFresh, abandoned, edits, rejected, lastEvent,
          copied, codeCopied, timers, now, clipboard, setAt, lastCopyAt>>

envVars  == <<player, connected, roomId>>
histVars == <<reqCount, lastPayload, roomNavs, roomIdFresh, abandoned, rejected>>
clipVars == <<copied, codeCopied, timers, now, clipboard, setAt, lastCopyAt>>

----------------------------------------------------------------------------
(* Bounds *)

MaxCreates == 2

\* the largest number of edits a run of the whole page makes
MaxEdits == 1

----------------------------------------------------------------------------
(* JavaScript numbers: an integer or NaN *)

NaN == [nan |-> TRUE, val |-> 0]

Num(n) == [nan |-> FALSE, val |-> n]

\* a < b on JS numbers: any comparison with NaN is false
JsLt(a, b) == ~a.nan /\ ~b.nan /\ a.val < b.val

JsGt(a, b) == ~a.nan /\ ~b.nan /\ a.val > b.val

----------------------------------------------------------------------------
(* Text is a sequence of one-character strings *)

Digits == {"0", "1", "2", "3", "4", "5", "6", "7", "8", "9"}

DigitVal == [c \in Digits |->
    CASE c = "0" -> 0 [] c = "1" -> 1 [] c = "2" -> 2 [] c = "3" -> 3
      [] c = "4" -> 4 [] c = "5" -> 5 [] c = "6" -> 6 [] c = "7" -> 7
      [] c = "8" -> 8 [] c = "9" -> 9]

WhiteSpace == {" "}

RECURSIVE TrimStart(_)
TrimStart(s) ==
    IF s # <<>> /\ Head(s) \in WhiteSpace THEN TrimStart(Tail(s)) ELSE s

RECURSIVE TrimEnd(_)
TrimEnd(s) ==
    IF s # <<>> /\ s[Len(s)] \in WhiteSpace
    THEN TrimEnd(SubSeq(s, 1, Len(s) - 1))
    ELSE s

\* String.prototype.trim
trim(s) == TrimEnd(TrimStart(s))

RECURSIVE DigitPrefix(_)
DigitPrefix(s) ==
    IF s = <<>> \/ Head(s) \notin Digits
    THEN <<>>
    ELSE <<Head(s)>> \o DigitPrefix(Tail(s))

RECURSIVE DigitsValue(_, _)
DigitsValue(s, acc) ==
    IF s = <<>> THEN acc ELSE DigitsValue(Tail(s), 10 * acc + DigitVal[Head(s)])

\* parseInt(value): leading white space, optional sign, the longest prefix
\* of decimal digits; NaN when there is no digit
parseInt(value) ==
    LET t      == TrimStart(value)
        signed == t # <<>> /\ Head(t) \in {"-", "+"}
        neg    == t # <<>> /\ Head(t) = "-"
        d      == DigitPrefix(IF signed THEN Tail(t) ELSE t)
    IN  IF d = <<>> THEN NaN
        ELSE Num(IF neg THEN 0 - DigitsValue(d, 0) ELSE DigitsValue(d, 0))

\* String.prototype.split(','): the pieces between commas, empty ones kept
RECURSIVE SplitFrom(_, _)
SplitFrom(s, cur) ==
    IF s = <<>> THEN <<cur>>
    ELSE IF Head(s) = "," THEN <<cur>> \o SplitFrom(Tail(s), <<>>)
    ELSE SplitFrom(Tail(s), Append(cur, Head(s)))

split(s) == SplitFrom(s, <<>>)

\* Array.prototype.map(word => word.trim())
mapTrim(ps) == [i \in 1..Len(ps) |-> trim(ps[i])]

\* Array.prototype.filter(Boolean): the empty string is falsy
filterBoolean(ps) == SelectSeq(ps, LAMBDA w : w # <<>>)

\* the parse without its map(word => word.trim()) step
ParseWords_NoTrim(raw) == filterBoolean(split(raw))

\* settings.customWords.split(',').map(word => word.trim()).filter(Boolean)
ParseWords(raw) == filterBoolean(mapTrim(split(raw)))

----------------------------------------------------------------------------
(* Settings and validation *)

NumericFields == {"totalPlayers", "drawTime", "totalRounds", "wordCount", "hintsCount"}

ErrorKeys == NumericFields \cup {"customWords"}

Fields == NumericFields \cup {"customWordsOnly", "customWords"}

\* the type attribute of the input element carrying each name
InputType == [f \in Fields |->
    IF f \in NumericFields THEN "number"
    ELSE IF f = "customWordsOnly" THEN "checkbox"
    ELSE "textarea"]

InitialSettings == [
    totalPlayers    |-> Num(6),
    drawTime        |-> Num(60),
    totalRounds     |-> Num(3),
    wordCount       |-> Num(3),
    hintsCount      |-> Num(2),
    customWordsOnly |-> FALSE,
    customWords     |-> <<>>]

Message == [f \in ErrorKeys |->
    CASE f = "totalPlayers" -> "Players must be between 2 and 20"
      [] f = "drawTime"     -> "Draw time must be between 15 and 240 seconds"
      [] f = "totalRounds"  -> "Rounds must be between 2 and 10"
      [] f = "wordCount"    -> "Word count must be between 1 and 5"
      [] f = "hintsCount"   -> "Hints must be between 0 and 5"
      [] f = "customWords"  -> "Please enter at least 10 custom words"]

\* variant: the upper limit of totalPlayers is exclusive
totalPlayersError_ExclusiveMax(s) ==
    JsLt(s.totalPlayers, Num(2)) \/ JsGt(s.totalPlayers, Num(19))

totalPlayersError(s) == JsLt(s.totalPlayers, Num(2)) \/ JsGt(s.totalPlayers, Num(20))

drawTimeError(s) == JsLt(s.drawTime, Num(15)) \/ JsGt(s.drawTime, Num(240))

\* variant: totalRounds has no upper limit
totalRoundsError_NoUpperLimit(s) == JsLt(s.totalRounds, Num(2))

totalRoundsError(s) == JsLt(s.totalRounds, Num(2)) \/ JsGt(s.totalRounds, Num(10))

wordCountError(s) == JsLt(s.wordCount, Num(1)) \/ JsGt(s.wordCount, Num(5))

hintsCountError(s) == JsLt(s.hintsCount, Num(0)) \/ JsGt(s.hintsCount, Num(5))

\* variant: ten words are not yet enough
customWordsError_TenRejected(s) ==
    s.customWordsOnly /\ Len(ParseWords(s.customWords)) <= 10

customWordsError(s) == s.customWordsOnly /\ Len(ParseWords(s.customWords)) < 10

\* newErrors as validateSettings builds it: one independent rule per key
validateSettings(s) ==
    LET bad == {f \in ErrorKeys :
                  \/ f = "totalPlayers" /\ totalPlayersError(s)
                  \/ f = "drawTime"     /\ drawTimeError(s)
                  \/ f = "totalRounds"  /\ totalRoundsError(s)
                  \/ f = "wordCount"    /\ wordCountError(s)
                  \/ f = "hintsCount"   /\ hintsCountError(s)
                  \/ f = "customWords"  /\ customWordsError(s)}
    IN  [f \in bad |-> Message[f]]

\* the return value of validateSettings: Object.keys(newErrors).length === 0
IsValid(s) == DOMAIN validateSettings(s) = {}

\* a payload that carries the raw text instead of the parsed list
Payload_RawText(s) == s

\* the createRoom argument: { ...settings, customWords: customWordsList }
Payload(s) == [s EXCEPT !.customWords = ParseWords(s.customWords)]

----------------------------------------------------------------------------
(* Context values, router paths, rendering *)

NoRoom == "null"

RoomIds == {"R1", "R2"}

CreatePage == <<"create">>

HomePath == <<"/">>

RoomPath(id) == <<"/room/", id>>

\* variant: the connectivity flag always reads as true
useSocketConnected_AlwaysTrue == TRUE

\* const { connected } = useSocket()
useSocketConnected == connected

\* the component renders anything at all: if (!player) return null
Rendered == mounted /\ player

\* the settings form and the button are rendered: {connected && (...)}
FormRendered == Rendered /\ useSocketConnected

\* variant: the button is disabled by connectivity alone
CreateDisabled_IgnoresCreating == ~useSocketConnected

\* disabled={isCreating || !connected}
CreateDisabled == isCreating \/ ~useSocketConnected

\* variant: handleCreateRoom ignores the result of validateSettings
CreateProceeds_IgnoresValidation(s) == useSocketConnected

\* the guard of handleCreateRoom does not return early
CreateProceeds(s) == ~(~IsValid(s) \/ ~useSocketConnected)

----------------------------------------------------------------------------
(* Inputs of the handlers *)

\* raw values an <input type="number"> hands to handleInputChange
NumberInputs == { <<>>, <<"3">> }

RECURSIVE Repeat(_, _)
Repeat(s, n) == IF n = 0 THEN <<>> ELSE s \o Repeat(s, n - 1)

\* "a, b ,c,,d"
MessyWords == <<"a", ",", " ", "b", " ", ",", "c", ",", ",", "d">>

\* ten words "a,a,...,a"
TenWords == Repeat(<<"a", ",">>, 9) \o <<"a">>

\* raw values the textarea hands to handleInputChange
TextInputs == { <<>>, TenWords }

\* the two feedback flags
Flags == {"link", "code"}

\* setTimeout(..., 2000), lines 120 and 128
CopyResetDelay == 2000

\* the clipboard state of a freshly constructed component
ClipInit ==
    /\ copied = FALSE
    /\ codeCopied = FALSE
    /\ timers = {}
    /\ now = 0
    /\ clipboard = << >>
    /\ setAt = [k \in Flags |-> 0]
    /\ lastCopyAt = [k \in Flags |-> 0]

----------------------------------------------------------------------------
(* Initial state: the component has just been constructed (first render    *)
(* committed, no effect run yet).  The context values are whatever the     *)
(* providers hold at that moment, a roomId from an earlier game included.  *)

Init ==
    /\ player \in BOOLEAN
    /\ connected \in BOOLEAN
    /\ roomId \in {NoRoom} \cup RoomIds
    /\ isCreating = FALSE
    /\ settings = InitialSettings
    /\ errors = << >>
    /\ depsPlayer = << >>
    /\ depsNav = << >>
    /\ location = CreatePage
    /\ mounted = TRUE
    /\ reqCount = 0
    /\ lastPayload = << >>
    /\ roomNavs = 0
    /\ roomIdFresh = FALSE
    /\ abandoned = FALSE
    /\ edits = 0
    /\ rejected = FALSE
    /\ lastEvent = "other"
    /\ ClipInit

----------------------------------------------------------------------------
(* Event handlers *)

\* variant: an edit of a field in error clears every error
HandleInputChange_ClearsAll(name, value, checked) ==
    /\ FormRendered
    /\ settings' =
         IF InputType[name] = "checkbox"
         THEN [settings EXCEPT ![name] = checked]
         ELSE IF InputType[name] = "number"
         THEN [settings EXCEPT ![name] = parseInt(value)]
         ELSE [settings EXCEPT ![name] = value]
    /\ errors' = IF name \in DOMAIN errors THEN << >> ELSE errors
    /\ edits' = edits + 1
    /\ lastEvent' = "other"
    /\ UNCHANGED <<envVars, isCreating, depsPlayer, depsNav, location, mounted, histVars>>
    /\ UNCHANGED clipVars

\* handleInputChange, lines 42-62: store the new value by input type, then
\* delete the error of the edited field if the rendered errors hold one
HandleInputChange(name, value, checked) ==
    /\ FormRendered
    /\ settings' =
         IF InputType[name] = "checkbox"
         THEN [settings EXCEPT ![name] = checked]
         ELSE IF InputType[name] = "number"
         THEN [settings EXCEPT ![name] = parseInt(value)]
         ELSE [settings EXCEPT ![name] = value]
    /\ errors' =
         IF name \in DOMAIN errors
         THEN [k \in DOMAIN errors \ {name} |-> errors[k]]
         ELSE errors
    /\ edits' = edits + 1
    /\ lastEvent' = "other"
    /\ UNCHANGED <<envVars, isCreating, depsPlayer, depsNav, location, mounted, histVars>>
    /\ UNCHANGED clipVars

\* handleCreateRoom, lines 98-113, run by a click on the Create Room button.
\* A click does nothing when the button is not rendered or is disabled.
ClickCreateRoom ==
    /\ mounted
    /\ lastEvent' = "create"
    /\ IF FormRendered /\ ~CreateDisabled
       THEN /\ errors' = validateSettings(settings)
            /\ rejected' = (rejected \/ ~IsValid(settings))
            /\ IF CreateProceeds(settings)
               THEN /\ reqCount < MaxCreates
                    /\ isCreating' = TRUE
                    /\ reqCount' = reqCount + 1
                    /\ lastPayload' = <<Payload(settings)>>
                    /\ roomIdFresh' = FALSE
                    /\ abandoned' = FALSE
               ELSE UNCHANGED <<isCreating, reqCount, lastPayload, roomIdFresh, abandoned>>
       ELSE UNCHANGED <<errors, isCreating, reqCount, lastPayload, roomIdFresh, abandoned,
                        rejected>>
    /\ UNCHANGED <<envVars, settings, depsPlayer, depsNav, location, mounted, roomNavs, edits>>
    /\ UNCHANGED clipVars

\* the back button, line 141: navigate('/')
ClickBack ==
    /\ Rendered
    /\ location' = HomePath
    /\ lastEvent' = "other"
    /\ UNCHANGED <<envVars, isCreating, settings, errors, depsPlayer, depsNav, mounted, histVars, edits>>
    /\ UNCHANGED clipVars

----------------------------------------------------------------------------
(* Effects *)

\* the condition of effect 1, line 27
RedirectFires == ~player

\* variant: effect 2 tests the roomId alone
NavigateFires_NoPhaseGuard == roomId # NoRoom

\* variant: effect 2 also asks for a connection
NavigateFires_NeedsConnection == roomId # NoRoom /\ isCreating /\ connected

\* the condition of effect 2, line 34
NavigateFires == roomId # NoRoom /\ isCreating

\* variant: effect 2 navigates without setIsCreating(false)
RunEffects_NoReset ==
    LET run1  == depsPlayer # <<player>>
        run2  == depsNav # <<roomId, isCreating>>
        fire1 == run1 /\ RedirectFires
        fire2 == run2 /\ NavigateFires
    IN  /\ mounted
        /\ run1 \/ run2
        /\ depsPlayer' = IF run1 THEN <<player>> ELSE depsPlayer
        /\ depsNav' = IF run2 THEN <<roomId, isCreating>> ELSE depsNav
        /\ location' = IF fire2 THEN RoomPath(roomId)
                       ELSE IF fire1 THEN HomePath
                       ELSE location
        /\ roomNavs' = IF fire2 THEN roomNavs + 1 ELSE roomNavs
        /\ abandoned' = IF fire1 /\ isCreating THEN TRUE ELSE abandoned
        /\ lastEvent' = "other"
        /\ UNCHANGED <<envVars, isCreating, settings, errors, mounted, reqCount,
                       lastPayload, roomIdFresh, edits, rejected>>
        /\ UNCHANGED clipVars

\* The passive effects of one commit, in declaration order.  An effect runs
\* when its dependency values differ from those of its previous run.
RunEffects ==
    LET run1  == depsPlayer # <<player>>
        run2  == depsNav # <<roomId, isCreating>>
        fire1 == run1 /\ RedirectFires
        fire2 == run2 /\ NavigateFires
    IN  /\ mounted
        /\ run1 \/ run2
        /\ depsPlayer' = IF run1 THEN <<player>> ELSE depsPlayer
        /\ depsNav' = IF run2 THEN <<roomId, isCreating>> ELSE depsNav
        /\ isCreating' = IF fire2 THEN FALSE ELSE isCreating
        /\ location' = IF fire2 THEN RoomPath(roomId)
                       ELSE IF fire1 THEN HomePath
                       ELSE location
        /\ roomNavs' = IF fire2 THEN roomNavs + 1 ELSE roomNavs
        /\ abandoned' = IF fire1 /\ isCreating THEN TRUE ELSE abandoned
        /\ lastEvent' = "other"
        /\ UNCHANGED <<envVars, settings, errors, mounted, reqCount, lastPayload, roomIdFresh, edits,
                       rejected>>
        /\ UNCHANGED clipVars

----------------------------------------------------------------------------
(* The router and the providers *)

\* the router renders another route once the location has left this page
Unmount ==
    /\ mounted
    /\ location # CreatePage
    /\ mounted' = FALSE
    /\ lastEvent' = "other"
    /\ UNCHANGED <<envVars, isCreating, settings, errors, depsPlayer, depsNav, location, histVars, edits>>
    /\ UNCHANGED clipVars

\* the identity provider sets or clears the player
PlayerChanges ==
    /\ mounted
    /\ player' = ~player
    /\ lastEvent' = "other"
    /\ UNCHANGED <<connected, roomId, isCreating, settings, errors, depsPlayer, depsNav,
                   location, mounted, histVars, edits>>
    /\ UNCHANGED clipVars

\* the socket connects or disconnects
ConnectedChanges ==
    /\ mounted
    /\ connected' = ~connected
    /\ lastEvent' = "other"
    /\ UNCHANGED <<player, roomId, isCreating, settings, errors, depsPlayer, depsNav,
                   location, mounted, histVars, edits>>
    /\ UNCHANGED clipVars

\* the session collaborator writes gameState.roomId
RoomIdChanges(r) ==
    /\ mounted
    /\ r # roomId
    /\ roomId' = r
    /\ roomIdFresh' = (r # NoRoom)
    /\ lastEvent' = "other"
    /\ UNCHANGED <<player, connected, isCreating, settings, errors, depsPlayer, depsNav,
                   location, mounted, reqCount, lastPayload, roomNavs, abandoned, edits,
                   rejected>>
    /\ UNCHANGED clipVars

----------------------------------------------------------------------------

Next ==
    \/ \E name \in Fields, value \in NumberInputs \cup TextInputs, checked \in BOOLEAN :
          /\ edits < MaxEdits
          /\ InputType[name] = "number" => value \in NumberInputs /\ checked = FALSE
          /\ InputType[name] = "checkbox" => value = <<>>
          /\ InputType[name] = "textarea" => value \in TextInputs /\ checked = FALSE
          /\ HandleInputChange(name, value, checked)
    \/ ClickCreateRoom
    \/ ClickBack
    \/ RunEffects
    \/ Unmount
    \/ PlayerChanges
    \/ ConnectedChanges
    \/ \E r \in {NoRoom} \cup RoomIds : RoomIdChanges(r)

Spec == Init /\ [][Next]_vars

----------------------------------------------------------------------------
(* Properties of the creation session *)

\* C1: while phase is Idle (isCreating = FALSE) no step navigates to a room,
\* whatever roomId holds; as long as no create action has been accepted no
\* room navigation has happened at all.
C1_NoNavigationWhileIdle ==
    /\ [](reqCount = 0 => roomNavs = 0 /\ location \in {CreatePage, HomePath})
    /\ [][~isCreating => roomNavs' = roomNavs /\ location' \in {location, HomePath}]_vars

\* a stale roomId has been seen by effect 2 in phase Idle, without navigation
C1_Witness ==
    /\ mounted /\ player
    /\ roomId \in RoomIds
    /\ reqCount = 0
    /\ depsNav = <<roomId, FALSE>>
    /\ location = CreatePage

\* C2: each accepted create action is followed by at most one navigation to a
\* room; the navigation resets phase to Idle, and later changes of roomId or
\* re-runs of the effect add none: roomNavs never exceeds reqCount.
C2_OneNavigationPerCycle ==
    /\ [](roomNavs <= reqCount /\ reqCount = roomNavs + (IF isCreating THEN 1 ELSE 0))
    /\ [][roomNavs' # roomNavs =>
            /\ roomNavs' = roomNavs + 1
            /\ isCreating /\ ~isCreating'
            /\ location' = RoomPath(roomId)]_vars

\* after the navigation to one room the roomId changed to another one and
\* effect 2 ran again, and there is still a single navigation
C2_Witness ==
    /\ mounted
    /\ reqCount = 1 /\ roomNavs = 1
    /\ roomId \in RoomIds
    /\ location \in {RoomPath(r) : r \in RoomIds \ {roomId}}
    /\ depsNav = <<roomId, FALSE>>

\* C3: every navigation to a room uses a roomId the session collaborator
\* wrote after the request of the current cycle was issued.
C3_NavigationOnlyToFreshRoom ==
    [][roomNavs' # roomNavs => roomIdFresh]_vars

\* C4: a click on create while connected = FALSE issues no request and leaves
\* the phase as it was, for valid and invalid settings alike.
C4_NoRequestWhileDisconnected ==
    [][(~connected /\ lastEvent' = "create") =>
          /\ reqCount' = reqCount
          /\ lastPayload' = lastPayload
          /\ isCreating' = isCreating]_vars

\* create was clicked while disconnected with settings that pass validation
C4_Witness ==
    /\ lastEvent = "create"
    /\ mounted /\ player /\ ~connected
    /\ IsValid(settings)
    /\ ~isCreating /\ reqCount = 0

\* C5: phase goes Idle -> AwaitingConfirmation only in a create action with
\* valid settings and connected = TRUE, which issues exactly one request;
\* it goes back to Idle only with a navigation to the room or when the
\* component goes away; requests are issued in no other step.
C5_PhaseTransitions ==
    [][ /\ (~isCreating /\ isCreating') =>
              /\ lastEvent' = "create"
              /\ IsValid(settings) /\ connected
              /\ reqCount' = reqCount + 1
        /\ (isCreating /\ ~isCreating') => (roomNavs' = roomNavs + 1 \/ ~mounted')
        /\ reqCount' # reqCount => (~isCreating /\ isCreating') ]_vars

\* a second cycle has started after a first confirmed one
C5_Witness ==
    /\ mounted
    /\ reqCount = 2 /\ roomNavs = 1
    /\ isCreating

\* the inclusive range of each numeric field
Lo == [f \in NumericFields |->
    CASE f = "totalPlayers" -> 2 [] f = "drawTime" -> 15 [] f = "totalRounds" -> 2
      [] f = "wordCount" -> 1 [] f = "hintsCount" -> 0]

Hi == [f \in NumericFields |->
    CASE f = "totalPlayers" -> 20 [] f = "drawTime" -> 240 [] f = "totalRounds" -> 10
      [] f = "wordCount" -> 5 [] f = "hintsCount" -> 5]

InRange(f, x) == ~x.nan /\ Lo[f] <= x.val /\ x.val <= Hi[f]

\* C6: every dispatched createRoom payload has its five numeric fields as
\* integers inside their ranges; a numeric field edited to empty input (NaN)
\* fails validation, so no request carries it.
C6_PayloadFieldsAreValidIntegers ==
    lastPayload # << >> => \A f \in NumericFields : InRange(f, lastPayload[1][f])

\* C7: once the player identity was lost while phase was
\* AwaitingConfirmation, no navigation to a room is performed for that
\* session, also when roomId becomes non-null afterwards.
C7_NoRoomNavigationAfterAbandonment ==
    [][(abandoned \/ abandoned') => roomNavs' = roomNavs]_vars

\* C8: while phase is AwaitingConfirmation a click on create changes nothing
\* and issues no request; at most one request is outstanding at any time.
C8_CreateIsNoOpWhileAwaiting ==
    /\ [](reqCount - roomNavs <= 1)
    /\ [][(isCreating /\ lastEvent' = "create") =>
            UNCHANGED <<envVars, isCreating, settings, errors, depsPlayer, depsNav,
                        location, mounted, histVars, edits>>]_vars

\* create was clicked on the rendered page while the request of the first
\* cycle was outstanding and effect 2 had already run for that render
C8_Witness ==
    /\ lastEvent = "create"
    /\ mounted /\ player /\ connected
    /\ isCreating
    /\ depsNav = <<roomId, TRUE>>
    /\ reqCount = 1 /\ roomNavs = 0

----------------------------------------------------------------------------
(* Validation as a function of the settings: the create action applied to  *)
(* every combination of boundary values of the five numeric fields, of the *)
(* checkbox and of word lists around the limit of ten.                     *)

\* nine words followed by a blank piece: "a,a,...,a, "
NineWordsAndBlank == Repeat(<<"a", ",">>, 9) \o <<" ">>

\* eleven words, the last one padded: "a,...,a, b "
ElevenWords == TenWords \o <<",", " ", "b", " ">>

ValidateTexts == { <<>>, MessyWords, NineWordsAndBlank, TenWords, ElevenWords }

BoundaryValues(f) == { Num(Lo[f] - 1), Num(Lo[f]), Num(Hi[f]), Num(Hi[f] + 1) }

ValidateSettings == {
    [totalPlayers |-> tp, drawTime |-> dt, totalRounds |-> tr, wordCount |-> wc,
     hintsCount |-> hc, customWordsOnly |-> cwo, customWords |-> cw] :
        tp \in BoundaryValues("totalPlayers"), dt \in BoundaryValues("drawTime"),
        tr \in BoundaryValues("totalRounds"), wc \in BoundaryValues("wordCount"),
        hc \in BoundaryValues("hintsCount"), cwo \in BOOLEAN, cw \in ValidateTexts }

InitValidate ==
    /\ player = TRUE
    /\ connected = TRUE
    /\ roomId = NoRoom
    /\ isCreating = FALSE
    /\ settings \in ValidateSettings
    /\ errors = << >>
    /\ depsPlayer = <<TRUE>>
    /\ depsNav = <<NoRoom, FALSE>>
    /\ location = CreatePage
    /\ mounted = TRUE
    /\ reqCount = 0
    /\ lastPayload = << >>
    /\ roomNavs = 0
    /\ roomIdFresh = FALSE
    /\ abandoned = FALSE
    /\ edits = 0
    /\ rejected = FALSE
    /\ lastEvent = "other"
    /\ ClipInit

NextValidate == ClickCreateRoom

SpecValidate == InitValidate /\ [][NextValidate]_vars

\* C9: for integer values of the five numeric fields the numeric error keys
\* after validation are exactly the fields whose value lies outside its
\* inclusive range; each field is judged on its own value only.
C9_NumericErrorsExact ==
    lastEvent = "create" =>
        (DOMAIN errors) \cap NumericFields =
            {f \in NumericFields : ~InRange(f, settings[f])}

\* totalPlayers one above its range, every other field on a boundary: the
\* only error is the one of totalPlayers
C9_Witness ==
    /\ lastEvent = "create"
    /\ settings.totalPlayers = Num(21)
    /\ settings.drawTime = Num(15)
    /\ settings.totalRounds = Num(10)
    /\ settings.wordCount = Num(1)
    /\ settings.hintsCount = Num(0)
    /\ ~settings.customWordsOnly
    /\ DOMAIN errors = {"totalPlayers"}

\* the number of comma-separated pieces of raw that hold a character other
\* than white space
RECURSIVE WordCountOf(_, _)
WordCountOf(raw, seen) ==
    IF raw = <<>> THEN (IF seen THEN 1 ELSE 0)
    ELSE IF Head(raw) = ","
         THEN (IF seen THEN 1 ELSE 0) + WordCountOf(Tail(raw), FALSE)
         ELSE WordCountOf(Tail(raw), seen \/ Head(raw) \notin WhiteSpace)

\* C10: validation reports a customWords error iff customWordsOnly is true
\* and the text holds fewer than 10 words; with the numeric fields valid and
\* either customWordsOnly false or 10 or more words, validation passes.
C10_CustomWordsRule ==
    lastEvent = "create" =>
        LET enough == WordCountOf(settings.customWords, FALSE) >= 10
        IN  /\ "customWords" \in DOMAIN errors <=> (settings.customWordsOnly /\ ~enough)
            /\ ((\A f \in NumericFields : InRange(f, settings[f]))
                    /\ (~settings.customWordsOnly \/ enough))
               => (errors = << >> /\ reqCount = 1)

\* customWordsOnly with exactly ten words passes validation
C10_Witness ==
    /\ lastEvent = "create"
    /\ settings.customWordsOnly
    /\ settings.customWords = TenWords
    /\ errors = << >>
    /\ reqCount = 1

----------------------------------------------------------------------------
(* The word-list parse on its own: the textarea holds any short text over  *)
(* letters, commas and blanks, and the Create Room button is clicked.      *)

\* longest raw text enumerated
MaxTextLen == 5

\* the characters a raw text is drawn from
TextAlphabet == {"a", "b", ",", " "}

RawTexts == UNION { [1..n -> TextAlphabet] : n \in 0..MaxTextLen }

InitParse ==
    /\ player = TRUE
    /\ connected = TRUE
    /\ roomId = NoRoom
    /\ isCreating = FALSE
    /\ settings \in { [InitialSettings EXCEPT !.customWords = raw] : raw \in RawTexts }
    /\ errors = << >>
    /\ depsPlayer = <<TRUE>>
    /\ depsNav = <<NoRoom, FALSE>>
    /\ location = CreatePage
    /\ mounted = TRUE
    /\ reqCount = 0
    /\ lastPayload = << >>
    /\ roomNavs = 0
    /\ roomIdFresh = FALSE
    /\ abandoned = FALSE
    /\ edits = 0
    /\ rejected = FALSE
    /\ lastEvent = "other"
    /\ ClipInit

NextParse == ClickCreateRoom

SpecParse == InitParse /\ [][NextParse]_vars

\* the tokens of a raw text, read in one pass from left to right: cur is the
\* token being read, pend the blanks seen since its last letter, out the
\* tokens finished so far
RECURSIVE Scan(_, _, _, _)
Scan(s, cur, pend, out) ==
    LET done == IF cur # <<>> THEN Append(out, cur) ELSE out
    IN  IF s = <<>> THEN done
        ELSE IF Head(s) = "," THEN Scan(Tail(s), <<>>, <<>>, done)
        ELSE IF Head(s) \in WhiteSpace
             THEN Scan(Tail(s), cur, IF cur = <<>> THEN <<>> ELSE Append(pend, Head(s)), out)
             ELSE Scan(Tail(s), cur \o pend \o <<Head(s)>>, <<>>, out)

RefTokens(raw) == Scan(raw, <<>>, <<>>, <<>>)

\* C11: the word list sent is the raw text split on commas, each piece
\* trimmed, empty pieces dropped, in input order and with repeats kept; no
\* word sent is empty, none starts or ends with white space.
C11_ParseWordList ==
    lastPayload # << >> =>
        LET ws == lastPayload[1].customWords
        IN  /\ ws = RefTokens(settings.customWords)
            /\ \A i \in 1..Len(ws) :
                  /\ ws[i] # <<>>
                  /\ ws[i][1] \notin WhiteSpace
                  /\ ws[i][Len(ws[i])] \notin WhiteSpace
                  /\ \A j \in 1..Len(ws[i]) : ws[i][j] # ","

\* " a,a ": blanks trimmed on both sides, the repeated word sent twice
C11_Witness ==
    /\ settings.customWords = <<" ", "a", ",", "a", " ">>
    /\ lastPayload # << >>
    /\ lastPayload[1].customWords = << <<"a">>, <<"a">> >>

----------------------------------------------------------------------------
(* The form on its own: a signed-in, connected user edits the fields and   *)
(* clicks Create Room; no room id arrives.                                 *)

\* number of edits followed
MaxFormEdits == 3

\* raw values the number inputs hand to handleInputChange: "", "3", "60"
FormNumberInputs == { <<>>, <<"3">>, <<"6", "0">> }

\* raw values the textarea hands to handleInputChange
FormTextInputs == { <<>>, MessyWords, TenWords }

InitForm ==
    /\ player = TRUE
    /\ connected = TRUE
    /\ roomId = NoRoom
    /\ isCreating = FALSE
    /\ settings = InitialSettings
    /\ errors = << >>
    /\ depsPlayer = <<TRUE>>
    /\ depsNav = <<NoRoom, FALSE>>
    /\ location = CreatePage
    /\ mounted = TRUE
    /\ reqCount = 0
    /\ lastPayload = << >>
    /\ roomNavs = 0
    /\ roomIdFresh = FALSE
    /\ abandoned = FALSE
    /\ edits = 0
    /\ rejected = FALSE
    /\ lastEvent = "other"
    /\ ClipInit

EditNumber ==
    \E name \in NumericFields, value \in FormNumberInputs :
        edits < MaxFormEdits /\ HandleInputChange(name, value, FALSE)

EditCheckbox ==
    \E checked \in BOOLEAN :
        edits < MaxFormEdits /\ HandleInputChange("customWordsOnly", <<>>, checked)

EditText ==
    \E value \in FormTextInputs :
        edits < MaxFormEdits /\ HandleInputChange("customWords", value, FALSE)

NextForm ==
    \/ EditNumber
    \/ EditCheckbox
    \/ EditText
    \/ ClickCreateRoom

SpecForm == InitForm /\ [][NextForm]_vars

\* C12: the payload of a request carries the word list parsed from the
\* settings the same click validated (ten words or more when customWordsOnly
\* is set), its other six fields equal those settings, and no later step
\* other than a new request changes what was sent.
C12_PayloadIsValidatedSnapshot ==
    [][/\ reqCount' # reqCount =>
            /\ lastPayload'[1].customWords = RefTokens(settings.customWords)
            /\ \A f \in NumericFields \cup {"customWordsOnly"} :
                  lastPayload'[1][f] = settings[f]
            /\ settings.customWordsOnly => Len(lastPayload'[1].customWords) >= 10
            /\ errors' = << >>
       /\ reqCount' = reqCount => lastPayload' = lastPayload]_vars

\* the messy text was sent as four words and the settings were edited after
\* the request
C12_Witness ==
    /\ reqCount = 1
    /\ lastPayload[1].customWords = << <<"a">>, <<"b">>, <<"c">>, <<"d">> >>
    /\ lastPayload[1].drawTime = Num(60)
    /\ settings.customWords = TenWords
    /\ settings.drawTime = Num(3)

\* C13: an edit of a field that has an error removes that key and nothing
\* else from the error mapping, the other keys keeping their messages; an
\* edit of a field without an error leaves the mapping as it was.
C13_EditClearsOwnErrorOnly ==
    [][edits' # edits =>
          \E f \in Fields :
              /\ \A g \in Fields \ {f} : settings'[g] = settings[g]
              /\ IF f \in DOMAIN errors
                 THEN /\ DOMAIN errors' = DOMAIN errors \ {f}
                      /\ \A k \in DOMAIN errors' : errors'[k] = errors[k]
                 ELSE errors' = errors]_vars

\* after a refused click and a later edit that set drawTime to 60 the
\* customWords error is still shown with its message, and it is the only one
C13_Witness ==
    /\ edits = 3
    /\ lastEvent = "other"
    /\ settings.drawTime = Num(60)
    /\ settings.customWordsOnly
    /\ rejected
    /\ DOMAIN errors = {"customWords"}
    /\ errors["customWords"] = Message["customWords"]

\* the fields validateSettings reports for settings s: a number outside its
\* inclusive range, or customWordsOnly set with fewer than ten words
FailingFields(s) ==
    {f \in NumericFields :
        ~s[f].nan /\ (s[f].val < Lo[f] \/ s[f].val > Hi[f])}
    \cup (IF s.customWordsOnly /\ WordCountOf(s.customWords, FALSE) < 10
          THEN {"customWords"} ELSE {})

\* C17: a click whose validation fails issues no request, leaves the phase
\* Idle and the settings as they were, and sets the error mapping to exactly
\* the messages of the failing fields; a click on the enabled button of a
\* connected form whose fields are all valid is accepted and issues one
\* request, also after an earlier refusal.
C17_FailedValidationIsRecoverable ==
    [][(lastEvent' = "create" /\ FormRendered /\ ~isCreating) =>
          IF FailingFields(settings) # {}
          THEN /\ reqCount' = reqCount
               /\ ~isCreating'
               /\ settings' = settings
               /\ errors' = [f \in FailingFields(settings) |-> Message[f]]
          ELSE /\ reqCount' = reqCount + 1
               /\ isCreating'
               /\ errors' = << >>]_vars

\* a click was refused, the failing fields were edited, and the next click
\* issued the request
C17_Witness ==
    /\ rejected
    /\ edits >= 2
    /\ reqCount = 1
    /\ isCreating
    /\ errors = << >>
    /\ lastEvent = "create"

----------------------------------------------------------------------------
(* Clipboard feedback: copyRoomLink, copyRoomCode and their timers, with   *)
(* the ways the component is left or torn down.                            *)

\* the clock is followed up to this time, in ms
MaxTime == 4000

\* `${window.location.origin}/room/${gameState.roomId}`, line 117
LinkText(id) == <<"origin", "/room/", id>>

\* the due time of the earliest pending timer
NextDue == CHOOSE d \in {t.due : t \in timers} : \A t \in timers : d <= t.due

\* copyRoomLink, lines 115-122.  writeText is not awaited: the flag is set
\* whether or not the platform copy succeeds.
CopyRoomLink ==
    /\ Rendered
    /\ now + CopyResetDelay <= MaxTime
    /\ lastEvent' = "copyLink"
    /\ IF roomId # NoRoom
       THEN /\ clipboard' \in {LinkText(roomId), clipboard}
            /\ copied' = TRUE
            /\ timers' = timers \cup {[flag |-> "link", due |-> now + CopyResetDelay]}
            /\ setAt' = IF copied THEN setAt ELSE [setAt EXCEPT !["link"] = now]
            /\ lastCopyAt' = [lastCopyAt EXCEPT !["link"] = now]
       ELSE UNCHANGED <<clipboard, copied, timers, setAt, lastCopyAt>>
    /\ UNCHANGED <<codeCopied, now>>
    /\ UNCHANGED <<envVars, isCreating, settings, errors, depsPlayer, depsNav, location, mounted,
                   histVars, edits>>

\* variant: the code handler sets the link flag
CopyRoomCode_SetsLinkFlag ==
    /\ Rendered
    /\ now + CopyResetDelay <= MaxTime
    /\ lastEvent' = "copyCode"
    /\ IF roomId # NoRoom
       THEN /\ clipboard' \in {<<roomId>>, clipboard}
            /\ copied' = TRUE
            /\ timers' = timers \cup {[flag |-> "code", due |-> now + CopyResetDelay]}
            /\ setAt' = IF copied THEN setAt ELSE [setAt EXCEPT !["link"] = now]
            /\ lastCopyAt' = [lastCopyAt EXCEPT !["code"] = now]
       ELSE UNCHANGED <<clipboard, copied, timers, setAt, lastCopyAt>>
    /\ UNCHANGED <<codeCopied, now>>
    /\ UNCHANGED <<envVars, isCreating, settings, errors, depsPlayer, depsNav, location, mounted,
                   histVars, edits>>

\* copyRoomCode, lines 124-130
CopyRoomCode ==
    /\ Rendered
    /\ now + CopyResetDelay <= MaxTime
    /\ lastEvent' = "copyCode"
    /\ IF roomId # NoRoom
       THEN /\ clipboard' \in {<<roomId>>, clipboard}
            /\ codeCopied' = TRUE
            /\ timers' = timers \cup {[flag |-> "code", due |-> now + CopyResetDelay]}
            /\ setAt' = IF codeCopied THEN setAt ELSE [setAt EXCEPT !["code"] = now]
            /\ lastCopyAt' = [lastCopyAt EXCEPT !["code"] = now]
       ELSE UNCHANGED <<clipboard, codeCopied, timers, setAt, lastCopyAt>>
    /\ UNCHANGED <<copied, now>>
    /\ UNCHANGED <<envVars, isCreating, settings, errors, depsPlayer, depsNav, location, mounted,
                   histVars, edits>>

\* a setTimeout callback of line 120 or 128 runs: () => setCopied(false) or
\* () => setCodeCopied(false).  Nothing clears a timer, so it runs whatever
\* has happened to the component; a state update of an unmounted component
\* is dropped.
TimerFires ==
    \E t \in timers :
        /\ t.due <= now
        /\ timers' = timers \ {t}
        /\ copied' = IF t.flag = "link" /\ mounted THEN FALSE ELSE copied
        /\ codeCopied' = IF t.flag = "code" /\ mounted THEN FALSE ELSE codeCopied
        /\ lastEvent' = IF t.flag = "link" THEN "timerLink" ELSE "timerCode"
        /\ UNCHANGED <<now, clipboard, setAt, lastCopyAt>>
        /\ UNCHANGED <<envVars, isCreating, settings, errors, depsPlayer, depsNav, location,
                       mounted, histVars, edits>>

\* time passes: half of the delay, or less when a timer is due sooner;
\* a timer that is due runs before time passes on
Tick ==
    LET step   == CopyResetDelay \div 2
        target == IF timers # {} /\ NextDue < now + step THEN NextDue ELSE now + step
    IN  /\ target > now
        /\ target <= MaxTime
        /\ now' = target
        /\ lastEvent' = "tick"
        /\ UNCHANGED <<copied, codeCopied, timers, clipboard, setAt, lastCopyAt>>
        /\ UNCHANGED <<envVars, isCreating, settings, errors, depsPlayer, depsNav, location,
                       mounted, histVars, edits>>

InitClipboard ==
    /\ player = TRUE
    /\ connected = TRUE
    /\ roomId \in {NoRoom} \cup RoomIds
    /\ isCreating = FALSE
    /\ settings = InitialSettings
    /\ errors = << >>
    /\ depsPlayer = <<TRUE>>
    /\ depsNav = <<roomId, FALSE>>
    /\ location = CreatePage
    /\ mounted = TRUE
    /\ reqCount = 0
    /\ lastPayload = << >>
    /\ roomNavs = 0
    /\ roomIdFresh = FALSE
    /\ abandoned = FALSE
    /\ edits = 0
    /\ rejected = FALSE
    /\ lastEvent = "other"
    /\ ClipInit

NextClipboard ==
    \/ CopyRoomLink
    \/ CopyRoomCode
    \/ TimerFires
    \/ Tick
    \/ ClickCreateRoom
    \/ ClickBack
    \/ RunEffects
    \/ Unmount
    \/ PlayerChanges

SpecClipboard == InitClipboard /\ [][NextClipboard]_vars

\* C14: a copy-link step leaves the code flag alone and a copy-code step the
\* link flag; the expiry of one flag's timer leaves the other flag alone and
\* leaves its own flag false; a flag of the mounted component is never true
\* later than 2000 ms after the copy that set it.
C14_FlagsIndependentAndAutoClear ==
    /\ [](mounted => /\ copied => now <= setAt["link"] + CopyResetDelay
                     /\ codeCopied => now <= setAt["code"] + CopyResetDelay)
    /\ [][/\ lastEvent' = "copyLink" => codeCopied' = codeCopied
          /\ lastEvent' = "copyCode" => copied' = copied
          /\ lastEvent' = "timerLink" => codeCopied' = codeCopied /\ (mounted => ~copied')
          /\ lastEvent' = "timerCode" => copied' = copied /\ (mounted => ~codeCopied')]_vars

\* the link flag has just been reset by its timer, 2000 ms after the copy
\* that set it, while the code flag set later is still true
C14_Witness ==
    /\ mounted
    /\ lastEvent = "timerLink"
    /\ ~copied
    /\ codeCopied
    /\ now = setAt["link"] + CopyResetDelay
    /\ now < setAt["code"] + CopyResetDelay

\* C15: a flag that goes from true to false does so no earlier than 2000 ms
\* after the latest copy of its kind: the timer of an earlier copy does not
\* reset a flag that a later copy has set again.
C15_RepeatedCopyRestartsTimer ==
    [][/\ (copied /\ ~copied') => now >= lastCopyAt["link"] + CopyResetDelay
       /\ (codeCopied /\ ~codeCopied') => now >= lastCopyAt["code"] + CopyResetDelay]_vars

\* C16: the pending clipboard timers are cancelled when the component is
\* torn down: no timer callback runs once the component is unmounted.
C16_NoTimerCallbackAfterUnmount ==
    [][~mounted => lastEvent' \notin {"timerLink", "timerCode"}]_vars

----------------------------------------------------------------------------
(* Identity, ordering and progress *)

\* C18: while the player is absent no form and no Create Room button is
\* rendered and no step issues a request, and the effect run that sees the
\* player absent leaves the location at '/'.
C18_AbsentIdentityRedirects ==
    [][/\ ~player => ~FormRendered
       /\ reqCount' # reqCount => player
       /\ (~player /\ depsPlayer # <<player>> /\ depsPlayer' = <<player>>)
             => location' = HomePath]_vars

\* an effect has a dependency that differs from its last run
EffectsPending ==
    mounted /\ (depsPlayer # <<player>> \/ depsNav # <<roomId, isCreating>>)

\* React runs the pending effects of a commit before it dispatches a click
\* or a change event, so the handlers see settled effects; the context
\* values may change several times within one commit
NextLive ==
    \/ \E name \in Fields, value \in NumberInputs \cup TextInputs, checked \in BOOLEAN :
          /\ ~EffectsPending
          /\ edits < MaxEdits
          /\ InputType[name] = "number" => value \in NumberInputs /\ checked = FALSE
          /\ InputType[name] = "checkbox" => value = <<>>
          /\ InputType[name] = "textarea" => value \in TextInputs /\ checked = FALSE
          /\ HandleInputChange(name, value, checked)
    \/ ~EffectsPending /\ ClickCreateRoom
    \/ ~EffectsPending /\ ClickBack
    \/ RunEffects
    \/ Unmount
    \/ PlayerChanges
    \/ ConnectedChanges
    \/ \E r \in {NoRoom} \cup RoomIds : RoomIdChanges(r)

\* pending effects are eventually run
SpecLive == Init /\ [][NextLive]_vars /\ WF_vars(RunEffects)

\* C19: a room navigation happens only after a request of this component;
\* the phase leaves AwaitingConfirmation only by a navigation to the current
\* non-null roomId (there is no timeout); and, effects being run eventually,
\* an awaiting mounted component with a non-null roomId does navigate and
\* return to Idle unless it is unmounted or the roomId is withdrawn first,
\* whatever happens to the connection and the settings meanwhile.
C19_ConfirmationLeadsToNavigation ==
    /\ [](roomNavs > 0 => reqCount > 0)
    /\ [][(isCreating /\ ~isCreating') =>
             /\ roomId # NoRoom
             /\ roomNavs' = roomNavs + 1
             /\ location' = RoomPath(roomId)]_vars
    /\ (isCreating /\ mounted /\ roomId # NoRoom)
          ~> (~isCreating \/ ~mounted \/ roomId = NoRoom)

\* the navigation has happened with the connection lost and with drawTime
\* edited, after the request, to a value no request would carry
C19_Witness ==
    /\ roomNavs = 1
    /\ reqCount = 1
    /\ ~isCreating
    /\ mounted
    /\ ~connected
    /\ location = RoomPath(roomId)
    /\ lastPayload[1].drawTime = Num(60)
    /\ settings.drawTime = Num(3)

====
